---- MODULE Spec2Model ----
(***************************************************************************)
(* Model of bbahrman/emailParse: the S3-triggered ingestion Lambda         *)
(* (app/app.py: lambda_handler, store_result), the DynamoDB bookings       *)
(* table it upserts into, and the read API (app/services/dynamodb_service, *)
(* app/routers/bookings).                                                  *)
(*                                                                         *)
(* Python values are tagged ([kind |-> "str", v |-> ...], "bool", "null")  *)
(* so that truthiness tests (`if not confirmation`) and isinstance tests   *)
(* can be written as the code writes them.  Python dicts are functions on  *)
(* a set of string keys.  S3 object keys are sequences of one-character    *)
(* strings while they are being decoded.                                   *)
(***************************************************************************)
EXTENDS Integers, Sequences, FiniteSets, TLC

(***************************************************************************)
(* Bounds of the model.                                                    *)
(***************************************************************************)
MaxRecords == 2
MaxClock == 1

(***************************************************************************)
(* Python values.                                                          *)
(***************************************************************************)
None == [kind |-> "null"]
Str(s) == [kind |-> "str", v |-> s]
Bool(b) == [kind |-> "bool", v |-> b]

\* Python truthiness of a str / bool / None value.
Truthy(x) ==
    CASE x.kind = "null" -> FALSE
      [] x.kind = "str"  -> x.v # ""
      [] x.kind = "bool" -> x.v
      [] OTHER           -> TRUE

\* dict.get(k, default)
Get(d, k, default) == IF k \in DOMAIN d THEN d[k] ELSE default

\* dict.setdefault(k, v), as the resulting dict
SetDefault(d, k, val) == IF k \in DOMAIN d THEN d ELSE d @@ (k :> val)

\* a or b
Or(a, b) == IF Truthy(a) THEN a ELSE b

(***************************************************************************)
(* Strings as character sequences; urllib.parse.unquote_plus.              *)
(***************************************************************************)
RECURSIVE Join(_)
Join(cs) == IF cs = <<>> THEN "" ELSE Head(cs) \o Join(Tail(cs))

\* str.replace(old, new) for one-character old and new
Replace(cs, old, new) == [i \in 1..Len(cs) |-> IF cs[i] = old THEN new ELSE cs[i]]

\* str.split(sep) for a one-character separator: the pieces between separators
RECURSIVE Split(_, _)
Split(cs, sep) ==
    IF \A i \in 1..Len(cs) : cs[i] # sep
    THEN <<cs>>
    ELSE LET p == CHOOSE i \in 1..Len(cs) :
                     cs[i] = sep /\ \A j \in 1..(i - 1) : cs[j] # sep
         IN  <<SubSeq(cs, 1, p - 1)>> \o Split(SubSeq(cs, p + 1, Len(cs)), sep)

HexDigits == {"0", "1", "2", "3", "4", "5", "6", "7", "8", "9",
              "A", "B", "C", "D", "E", "F", "a", "b", "c", "d", "e", "f"}

HexVal(c) ==
    CASE c = "0" -> 0  [] c = "1" -> 1  [] c = "2" -> 2  [] c = "3" -> 3
      [] c = "4" -> 4  [] c = "5" -> 5  [] c = "6" -> 6  [] c = "7" -> 7
      [] c = "8" -> 8  [] c = "9" -> 9
      [] c \in {"A", "a"} -> 10  [] c \in {"B", "b"} -> 11
      [] c \in {"C", "c"} -> 12  [] c \in {"D", "d"} -> 13
      [] c \in {"E", "e"} -> 14  [] c \in {"F", "f"} -> 15

\* chr() on the ASCII codes the sample keys can produce
Chr(n) ==
    CASE n = 32 -> " "  [] n = 37 -> "%"  [] n = 43 -> "+"
      [] n = 47 -> "/"  [] n = 95 -> "_"

\* One '%'-separated piece of unquote(): two leading hex digits become the
\* character they encode, anything else keeps its '%'.
UnquotePiece(piece) ==
    IF Len(piece) >= 2 /\ piece[1] \in HexDigits /\ piece[2] \in HexDigits
    THEN <<Chr(16 * HexVal(piece[1]) + HexVal(piece[2]))>> \o SubSeq(piece, 3, Len(piece))
    ELSE <<"%">> \o piece

RECURSIVE UnquotePieces(_)
UnquotePieces(bits) ==
    IF bits = <<>> THEN <<>> ELSE UnquotePiece(Head(bits)) \o UnquotePieces(Tail(bits))

\* urllib.parse.unquote
Unquote(cs) ==
    LET bits == Split(cs, "%")
    IN  Head(bits) \o UnquotePieces(Tail(bits))

\* A plausible slip: '+' is turned into a space after the escapes are decoded.
unquote_plus_PlusLast(cs) == Replace(Unquote(cs), "+", " ")

\* urllib.parse.unquote_plus: '+' becomes a space, then the escapes are decoded
unquote_plus(cs) == Unquote(Replace(cs, "+", " "))

\* A str value that also carries its characters, for the strings the code
\* applies str.replace to (object keys and what is derived from them).
StrOfChars(cs) == [kind |-> "str", v |-> Join(cs), chars |-> cs]

(***************************************************************************)
(* app/models/booking.py: Booking, and pydantic's model_dump(mode="json"). *)
(***************************************************************************)
BookingFields ==
    {"name", "confirmation", "check_in_date", "check_out_date", "check_in_time",
     "check_out_time", "early_check_in_time", "early_check_in_cost",
     "breakfast_included", "cancellation_terms", "address", "city",
     "booking_date", "what3words", "website", "amount_paid", "amount_total",
     "room_type"}

Date(y, m, d) == [kind |-> "date", y |-> y, m |-> m, d |-> d]
\* Decimal with integer coefficient and exponent 0 or -2
Decimal(coeff, exp) == [kind |-> "decimal", coeff |-> coeff, exp |-> exp]
HttpUrl(scheme, host, path) == [kind |-> "url", scheme |-> scheme, host |-> host, path |-> path]

TwoDigits(n) == IF n < 10 THEN "0" \o ToString(n) ELSE ToString(n)

\* date.isoformat()
DateIso(x) == ToString(x.y) \o "-" \o TwoDigits(x.m) \o "-" \o TwoDigits(x.d)

\* str(Decimal)
DecimalStr(x) ==
    IF x.exp = 0 THEN ToString(x.coeff)
    ELSE ToString(x.coeff \div 100) \o "." \o TwoDigits(x.coeff % 100)

\* str(HttpUrl): an empty path is normalised to "/"
UrlStr(x) == x.scheme \o "://" \o x.host \o (IF x.path = "" THEN "/" ELSE x.path)

JsonValue(x) ==
    CASE x.kind = "date"    -> Str(DateIso(x))
      [] x.kind = "decimal" -> Str(DecimalStr(x))
      [] x.kind = "url"     -> Str(UrlStr(x))
      [] OTHER              -> x

\* Booking.model_dump(mode="json")
model_dump(b) == [f \in DOMAIN b |-> JsonValue(b[f])]

\* Bookings parse_email can return (any value the field types admit; these
\* are the samples the model draws from).
BookingA ==
    [name |-> Str("Ann"), confirmation |-> Str("MAQ1101970"),
     check_in_date |-> Date(2025, 3, 20), check_out_date |-> Date(2025, 3, 28),
     check_in_time |-> Str("3pm"), check_out_time |-> Str("12pm"),
     early_check_in_time |-> Str("3pm"), early_check_in_cost |-> Decimal(15, 0),
     breakfast_included |-> Bool(FALSE), cancellation_terms |-> Str(""),
     address |-> Str("Old Marylebone Road, GB, NW1 5DZ"), city |-> Str("London"),
     booking_date |-> Date(2025, 1, 20), what3words |-> Str("///talent.actors.ideal"),
     website |-> HttpUrl("https", "premierinn.com", ""),
     amount_paid |-> Decimal(0, 0), amount_total |-> Decimal(78500, -2),
     room_type |-> Str("Hub Standard Room")]

\* the same confirmation with amended details
BookingB ==
    [BookingA EXCEPT !.name = Str("Bob"), !.check_in_date = Date(2025, 4, 1),
                     !.check_out_date = Date(2025, 4, 9), !.breakfast_included = Bool(TRUE),
                     !.amount_paid = Decimal(10005, -2), !.room_type = Str("")]

\* a booking whose confirmation code was not found
BookingC ==
    [BookingA EXCEPT !.confirmation = Str(""), !.name = Str(""), !.address = Str(""),
                     !.what3words = Str(""), !.check_in_time = Str("")]

BookingSamples == {BookingA, BookingB, BookingC}

(***************************************************************************)
(* Lambda events.                                                          *)
(***************************************************************************)
S3Info(bucket, key) == [bucket |-> [name |-> bucket], object |-> [key |-> key]]

RecordSamples ==
    { [eventSource |-> Str("aws:s3"), s3 |-> S3Info("bucket1", <<"m", "/", "a">>)],
      [eventSource |-> Str("aws:s3"), s3 |-> S3Info("bucket2", <<"m", "%", "2", "0", "a", "+", "b">>)],
      [EventSource |-> Str("aws:s3"),
       s3 |-> S3Info("bucket1", <<"%", "2", "B", "m", "%", "2", "5", "2", "F", "a">>)],
      [eventSource |-> Str("aws:sqs"), body |-> Str("some message")],
      [eventSource |-> Str("aws:sqs"), EventSource |-> Str("aws:s3"),
       s3 |-> S3Info("bucket1", <<"m", "/", "a">>)] }

RECURSIVE SeqsUpTo(_, _)
SeqsUpTo(S, n) ==
    IF n = 0 THEN {<<>>}
    ELSE LET shorter == SeqsUpTo(S, n - 1)
         IN  shorter \cup {Append(s, x) : s \in {t \in shorter : Len(t) = n - 1}, x \in S}

\* An event either has a Records list or no Records key at all.
EventSamples ==
    {[Records |-> rs] : rs \in SeqsUpTo(RecordSamples, MaxRecords)} \cup {[context |-> None]}

(***************************************************************************)
(* The DynamoDB bookings table and store_result (app/app.py).              *)
(***************************************************************************)
\* What boto3 writes for a value: a plain string, boolean or NULL.
Plain(x) == IF x.kind = "str" THEN Str(x.v) ELSE x

\* datetime.utcnow().isoformat() at clock reading t
IsoInstant(t) == "2025-11-17T10:00:0" \o ToString(t)

\* x.replace(old, new) on a str value
ReplaceStr(x, old, new) == StrOfChars(Replace(x.chars, old, new))

\* The primary key store_result uses: the confirmation, or when it is blank
\* the id, or when that is blank too the source key with '/' replaced.
StoreConfirmation(parsed) ==
    LET confirmation == Get(parsed, "confirmation", None)
    IN  IF ~Truthy(confirmation)
        THEN Or(Get(parsed, "id", None),
                ReplaceStr(Get(parsed, "source_key",
                               StrOfChars(<<"u", "n", "k", "n", "o", "w", "n">>)), "/", "_"))
        ELSE confirmation

\* website = str(parsed.get("website", "")) if parsed.get("website") else None
StoreWebsite(parsed) ==
    IF Truthy(Get(parsed, "website", None)) THEN Str(parsed["website"].v) ELSE None

\* ExpressionAttributeValues of the SET clauses other than created_at
StoreValues(parsed, now) ==
    [name                |-> Plain(Get(parsed, "name", None)),
     check_in_date       |-> Plain(Get(parsed, "check_in_date", None)),
     check_out_date      |-> Plain(Get(parsed, "check_out_date", None)),
     check_in_time       |-> Plain(Get(parsed, "check_in_time", None)),
     check_out_time      |-> Plain(Get(parsed, "check_out_time", None)),
     early_check_in_time |-> Plain(Get(parsed, "early_check_in_time", None)),
     early_check_in_cost |-> Plain(Get(parsed, "early_check_in_cost", None)),
     breakfast_included  |-> Plain(Get(parsed, "breakfast_included", Bool(FALSE))),
     cancellation_terms  |-> Plain(Get(parsed, "cancellation_terms", None)),
     address             |-> Plain(Get(parsed, "address", None)),
     city                |-> Plain(Get(parsed, "city", None)),
     booking_date        |-> Plain(Get(parsed, "booking_date", None)),
     what3words          |-> Plain(Get(parsed, "what3words", None)),
     website             |-> StoreWebsite(parsed),
     amount_paid         |-> Plain(Get(parsed, "amount_paid", None)),
     amount_total        |-> Plain(Get(parsed, "amount_total", None)),
     room_type           |-> Plain(Get(parsed, "room_type", None)),
     source_bucket       |-> Plain(Get(parsed, "source_bucket", None)),
     source_key          |-> Plain(Get(parsed, "source_key", None)),
     updated_at          |-> Str(now)]

\* A plausible slip: the item is always added, never matched by key.
update_item_AlwaysInsert(tbl, key, sets, created) ==
    tbl \cup {("confirmation" :> Plain(key)) @@ sets @@ ("created_at" :> Str(created))}

\* A plausible slip: every attribute is written with if_not_exists.
update_item_KeepExisting(tbl, key, sets, created) ==
    LET existing == {it \in tbl : it.confirmation.v = key.v}
    IN  IF existing = {}
        THEN tbl \cup {("confirmation" :> Plain(key)) @@ sets @@ ("created_at" :> Str(created))}
        ELSE tbl

\* A plausible slip: created_at = :created_at, without if_not_exists.
update_item_ResetCreated(tbl, key, sets, created) ==
    LET existing == {it \in tbl : it.confirmation.v = key.v}
        Updated(it) ==
            [f \in DOMAIN it \cup DOMAIN sets \cup {"created_at"} |->
                IF f \in DOMAIN sets THEN sets[f]
                ELSE IF f = "created_at" THEN Str(created) ELSE it[f]]
    IN  IF existing = {}
        THEN tbl \cup {("confirmation" :> Plain(key)) @@ sets @@ ("created_at" :> Str(created))}
        ELSE (tbl \ existing) \cup {Updated(it) : it \in existing}

\* table.update_item(Key={"confirmation": key}, "SET a = :a, ...,
\* created_at = if_not_exists(created_at, :created_at)"): the item with that
\* key is created when absent; the SET attributes are overwritten, created_at
\* is written only when the item has none, other attributes are kept.
update_item(tbl, key, sets, created) ==
    LET existing == {it \in tbl : it.confirmation.v = key.v}
        Updated(it) ==
            [f \in DOMAIN it \cup DOMAIN sets \cup {"created_at"} |->
                IF f \in DOMAIN sets THEN sets[f]
                ELSE IF f = "created_at"
                     THEN (IF "created_at" \in DOMAIN it THEN it["created_at"] ELSE Str(created))
                     ELSE it[f]]
    IN  IF existing = {}
        THEN tbl \cup {("confirmation" :> Plain(key)) @@ sets @@ ("created_at" :> Str(created))}
        ELSE (tbl \ existing) \cup {Updated(it) : it \in existing}

(***************************************************************************)
(* The read side: DynamoDBService and the bookings router.                 *)
(***************************************************************************)
\* One value of _convert_dynamodb_item: a low-level type descriptor
\* ({"S": ...}, {"N": ...}, {"BOOL": ...}, {"NULL": ...}) is unwrapped, a
\* native value is kept.
ConvertValue(x) ==
    IF x.kind = "dict"
    THEN CASE "S" \in DOMAIN x.v    -> Str(x.v["S"])
           [] "N" \in DOMAIN x.v    -> [kind |-> "num", v |-> x.v["N"]]
           [] "BOOL" \in DOMAIN x.v -> Bool(x.v["BOOL"])
           [] "NULL" \in DOMAIN x.v -> None
           [] OTHER                 -> x
    ELSE x

convert_dynamodb_item(item) == [f \in DOMAIN item |-> ConvertValue(item[f])]

\* A plausible slip: the first item of the table is returned, whatever its key.
get_item_AnyItem(tbl, confirmation) ==
    IF tbl # {} THEN [Item |-> CHOOSE it \in tbl : TRUE] ELSE [ResponseMetadata |-> None]

\* table.get_item(Key={"confirmation": confirmation}): the response carries
\* "Item" only when an item has that key.
get_item(tbl, confirmation) ==
    IF \E it \in tbl : it.confirmation.v = confirmation
    THEN [Item |-> CHOOSE it \in tbl : it.confirmation.v = confirmation]
    ELSE [ResponseMetadata |-> None]

\* DynamoDBService.get_booking_by_id when get_item does not raise
service_get_booking_by_id(tbl, confirmation) ==
    LET response == get_item(tbl, confirmation)
    IN  IF "Item" \in DOMAIN response
        THEN [kind |-> "dict", v |-> convert_dynamodb_item(response["Item"])]
        ELSE None

ResponseStrFields ==
    {"name", "check_in_date", "check_out_date", "check_in_time", "check_out_time",
     "early_check_in_time", "early_check_in_cost", "cancellation_terms", "address",
     "city", "booking_date", "what3words", "website", "amount_paid", "amount_total",
     "room_type", "source_bucket", "source_key", "created_at", "updated_at"}

ResponseFields == {"confirmation", "breakfast_included"} \cup ResponseStrFields

\* pydantic validation of BookingResponse(**booking)
ResponseValid(d) ==
    /\ "confirmation" \in DOMAIN d /\ d["confirmation"].kind = "str"
    /\ \A f \in ResponseStrFields \cap DOMAIN d : d[f].kind \in {"str", "null"}
    /\ "breakfast_included" \in DOMAIN d => d["breakfast_included"].kind \in {"bool", "null"}

\* BookingResponse(**booking): the declared fields, None where absent
BookingResponse(d) == [f \in ResponseFields |-> Get(d, f, None)]

\* Python truthiness of a dict-or-None
TruthyDict(x) == x.kind = "dict" /\ DOMAIN x.v # {}

\* routers/bookings.py get_booking_by_id, given what the service returned
router_get_booking_by_id(booking, confirmation) ==
    IF ~TruthyDict(booking)
    THEN [status |-> 404, detail |-> <<"Booking with confirmation '", confirmation, "' not found">>]
    ELSE IF ResponseValid(booking.v)
         THEN [status |-> 200, body |-> BookingResponse(booking.v)]
         ELSE [status |-> 500, detail |-> <<"validation error">>]

(***************************************************************************)
(* State.                                                                  *)
(***************************************************************************)
VARIABLES
    table,        \* the items of the DynamoDB bookings table
    clock,        \* the reading of datetime.utcnow()
    event,        \* the event of the current invocation
    pc,           \* where lambda_handler is: idle, loop, parse, store, returned, raised
    idx,          \* position in Records of the record being processed
    bucket_name,  \* local of lambda_handler
    object_key,   \* local of lambda_handler (decoded, as characters)
    booking,      \* local of lambda_handler: what parse_email returned
    parsed,       \* local of lambda_handler: the dict handed to store_result
    result,       \* what the invocation returned
    getCalls,     \* history: the s3.get_object calls of this invocation
    storeCalls,   \* history: the store_result calls of this invocation
    outcome,      \* history: how each record handled so far ended
    response,     \* what GET /bookings/{confirmation} answered, when the latest step was a request
    trace,        \* history: the steps of this invocation, in the order they happened
    scan,         \* a GET /bookings/ request: its parameters, where it is, what it has read
    llm           \* a call of llm_extract_email: the model's response and what became of it

vars == <<table, clock, event, pc, idx, bucket_name, object_key,
          booking, parsed, result, getCalls, storeCalls, outcome, response,
          trace, scan, llm>>

\* the state of the other two entry points
otherVars == <<scan, llm>>

handlerLocals == <<bucket_name, object_key, booking, parsed>>

Unbound == [kind |-> "unbound"]

\* confirmations a client asks the API for
RequestSamples == {"MAQ1101970", "m_a", "ZZZ"}

Init ==
    /\ table = {}
    /\ clock = 0
    /\ event = [context |-> None]
    /\ pc = "idle"
    /\ idx = 0
    /\ bucket_name = Unbound
    /\ object_key = Unbound
    /\ booking = Unbound
    /\ parsed = Unbound
    /\ result = Unbound
    /\ getCalls = <<>>
    /\ storeCalls = <<>>
    /\ outcome = <<>>
    /\ response = Unbound
    /\ trace = <<>>
    /\ scan = Unbound
    /\ llm = Unbound

(***************************************************************************)
(* lambda_handler (app/app.py), one action per step of the record loop.    *)
(***************************************************************************)
\* event.get("Records", [])
Records(ev) == Get(ev, "Records", <<>>)

\* A plausible slip: EventSource is preferred over eventSource.
EventSourceOf_Swapped(record) ==
    Or(Get(record, "EventSource", None), Get(record, "eventSource", None))

\* record.get("eventSource") or record.get("EventSource")
EventSourceOf(record) ==
    Or(Get(record, "eventSource", None), Get(record, "EventSource", None))

IsS3Record(record) == EventSourceOf(record) = Str("aws:s3")

\* The handler is invoked with an event.
Invoke(ev) ==
    /\ pc = "idle"
    /\ event' = ev
    /\ pc' = "loop"
    /\ idx' = 1
    /\ bucket_name' = Unbound
    /\ object_key' = Unbound
    /\ booking' = Unbound
    /\ parsed' = Unbound
    /\ result' = Unbound
    /\ getCalls' = <<>>
    /\ storeCalls' = <<>>
    /\ outcome' = <<>>
    /\ UNCHANGED <<table, clock>>
    /\ trace' = <<>>
    /\ UNCHANGED otherVars
    /\ response' = Unbound

AtRecord == pc = "loop" /\ idx <= Len(Records(event))

\* if event_source != "aws:s3": continue
SkipNonS3 ==
    /\ AtRecord
    /\ ~IsS3Record(Records(event)[idx])
    /\ idx' = idx + 1
    /\ outcome' = Append(outcome, "skipped")
    /\ UNCHANGED <<table, clock, event, pc, handlerLocals, result,
                   getCalls, storeCalls>>
    /\ trace' = Append(trace, [op |-> "skip", record |-> idx])
    /\ UNCHANGED otherVars
    /\ response' = Unbound

\* The bucket name and the decoded object key of the record, and the
\* get_object call made with them.
RecordBucket(record) == record["s3"]["bucket"]["name"]
RecordKey(record) == unquote_plus(record["s3"]["object"]["key"])
GetObjectCall(record) ==
    [record |-> idx, Bucket |-> RecordBucket(record), Key |-> Join(RecordKey(record))]

\* s3.get_object succeeds and the body is read.
GetObjectOk ==
    /\ AtRecord
    /\ IsS3Record(Records(event)[idx])
    /\ bucket_name' = RecordBucket(Records(event)[idx])
    /\ object_key' = RecordKey(Records(event)[idx])
    /\ getCalls' = Append(getCalls, GetObjectCall(Records(event)[idx]))
    /\ pc' = "parse"
    /\ UNCHANGED <<table, clock, event, idx, booking, parsed, result,
                   storeCalls, outcome>>
    /\ trace' = Append(trace, [op |-> "fetch", record |-> idx, ok |-> TRUE])
    /\ UNCHANGED otherVars
    /\ response' = Unbound

\* A plausible slip: the ClientError is logged but the record is not left.
GetObjectClientError_NoContinue ==
    /\ AtRecord
    /\ IsS3Record(Records(event)[idx])
    /\ bucket_name' = RecordBucket(Records(event)[idx])
    /\ object_key' = RecordKey(Records(event)[idx])
    /\ getCalls' = Append(getCalls, GetObjectCall(Records(event)[idx]))
    /\ pc' = "parse"
    /\ outcome' = Append(outcome, "fetch_error")
    /\ UNCHANGED <<table, clock, event, idx, booking, parsed, result,
                   storeCalls>>
    /\ trace' = Append(trace, [op |-> "fetch", record |-> idx, ok |-> FALSE])
    /\ UNCHANGED otherVars
    /\ response' = Unbound

\* s3.get_object raises ClientError: logged, continue.
GetObjectClientError ==
    /\ AtRecord
    /\ IsS3Record(Records(event)[idx])
    /\ bucket_name' = RecordBucket(Records(event)[idx])
    /\ object_key' = RecordKey(Records(event)[idx])
    /\ getCalls' = Append(getCalls, GetObjectCall(Records(event)[idx]))
    /\ idx' = idx + 1
    /\ outcome' = Append(outcome, "fetch_error")
    /\ UNCHANGED <<table, clock, event, pc, booking, parsed, result,
                   storeCalls>>
    /\ trace' = Append(trace, [op |-> "fetch", record |-> idx, ok |-> FALSE])
    /\ UNCHANGED otherVars
    /\ response' = Unbound

\* A plausible slip: the id is never added.
ParsedOf_NoId(b) ==
    LET dumped == model_dump(b)
        withBucket == SetDefault(dumped, "source_bucket", Str(bucket_name))
    IN  SetDefault(withBucket, "source_key", StrOfChars(object_key))

\* The dict built from the Booking: the dump, where it came from, and an id.
ParsedOf(b) ==
    LET dumped == model_dump(b)
        withBucket == SetDefault(dumped, "source_bucket", Str(bucket_name))
        withKey == SetDefault(withBucket, "source_key", StrOfChars(object_key))
    IN  IF "id" \notin DOMAIN withKey
        THEN withKey @@ ("id" :> StrOfChars(Replace(object_key, "/", "_")))
        ELSE withKey

\* A plausible slip: the dict of an earlier record is kept when there is one.
ParseOk_KeepsParsed(b) ==
    /\ pc = "parse"
    /\ booking' = b
    /\ parsed' = IF parsed = Unbound THEN ParsedOf(b) ELSE parsed
    /\ pc' = "store"
    /\ UNCHANGED <<table, clock, event, idx, bucket_name, object_key,
                   result, getCalls, storeCalls, outcome>>
    /\ trace' = Append(trace, [op |-> "parse", record |-> idx, ok |-> TRUE])
    /\ UNCHANGED otherVars
    /\ response' = Unbound

\* parse_email returns a Booking.
ParseOk(b) ==
    /\ pc = "parse"
    /\ booking' = b
    /\ parsed' = ParsedOf(b)
    /\ pc' = "store"
    /\ UNCHANGED <<table, clock, event, idx, bucket_name, object_key,
                   result, getCalls, storeCalls, outcome>>
    /\ trace' = Append(trace, [op |-> "parse", record |-> idx, ok |-> TRUE])
    /\ UNCHANGED otherVars
    /\ response' = Unbound

\* A plausible slip: the exception is not caught and leaves the handler.
ParseFailed_Propagates(why) ==
    /\ pc = "parse"
    /\ pc' = "raised"
    /\ result' = [kind |-> "raised", why |-> why]
    /\ outcome' = Append(outcome, why)
    /\ UNCHANGED <<table, clock, event, idx, handlerLocals, getCalls, storeCalls>>
    /\ trace' = Append(trace, [op |-> "parse", record |-> idx, ok |-> FALSE, why |-> why])
    /\ UNCHANGED otherVars
    /\ response' = Unbound

\* A plausible slip: the parse error is logged but the record is not left.
ParseFailed_NoContinue(why) ==
    /\ pc = "parse"
    /\ pc' = "store"
    /\ outcome' = Append(outcome, why)
    /\ UNCHANGED <<table, clock, event, idx, handlerLocals, result,
                   getCalls, storeCalls>>
    /\ trace' = Append(trace, [op |-> "parse", record |-> idx, ok |-> FALSE, why |-> why])
    /\ UNCHANGED otherVars
    /\ response' = Unbound

\* A plausible slip: only ValueError is caught, any other error propagates.
ParseFailed_ValueErrorOnly(why) ==
    /\ pc = "parse"
    /\ IF why = "value_error"
       THEN pc' = "loop" /\ idx' = idx + 1 /\ UNCHANGED result
       ELSE pc' = "raised" /\ result' = [kind |-> "raised", why |-> why] /\ UNCHANGED idx
    /\ outcome' = Append(outcome, why)
    /\ UNCHANGED <<table, clock, event, handlerLocals, getCalls, storeCalls>>
    /\ trace' = Append(trace, [op |-> "parse", record |-> idx, ok |-> FALSE, why |-> why])
    /\ UNCHANGED otherVars
    /\ response' = Unbound

\* parse_email (or model_dump) raises: logged, continue.
ParseFailed(why) ==
    /\ pc = "parse"
    /\ pc' = "loop"
    /\ idx' = idx + 1
    /\ outcome' = Append(outcome, why)
    /\ UNCHANGED <<table, clock, event, handlerLocals, result,
                   getCalls, storeCalls>>
    /\ trace' = Append(trace, [op |-> "parse", record |-> idx, ok |-> FALSE, why |-> why])
    /\ UNCHANGED otherVars
    /\ response' = Unbound

\* except ValueError: the email is not a booking
ParseValueError == ParseFailed("value_error")

\* except Exception: any other parsing error
ParseException == ParseFailed("parse_error")

\* store_result(parsed) succeeds: the item is upserted at clock reading t.
StoreOk(t) ==
    /\ pc = "store"
    /\ t \in clock..MaxClock
    /\ LET confirmation == StoreConfirmation(parsed)
           now == IsoInstant(t)
       IN  /\ table' = update_item(table, confirmation, StoreValues(parsed, now), now)
           /\ parsed' = [f \in DOMAIN parsed \cup {"confirmation"} |->
                            IF f = "confirmation" THEN confirmation ELSE parsed[f]]
           /\ storeCalls' = Append(storeCalls,
                                   [record |-> idx, parsed |-> parsed, ok |-> TRUE, at |-> now])
    /\ clock' = t
    /\ pc' = "loop"
    /\ idx' = idx + 1
    /\ outcome' = Append(outcome, "stored")
    /\ UNCHANGED <<event, bucket_name, object_key, booking, result, getCalls>>
    /\ trace' = Append(trace, [op |-> "store", record |-> idx, ok |-> TRUE])
    /\ UNCHANGED otherVars
    /\ response' = Unbound

\* A plausible slip: the handler logs a store_result error and continues.
StoreRaises_Swallowed(why) ==
    /\ pc = "store"
    /\ parsed' = [f \in DOMAIN parsed \cup {"confirmation"} |->
                     IF f = "confirmation" THEN StoreConfirmation(parsed) ELSE parsed[f]]
    /\ storeCalls' = Append(storeCalls,
                            [record |-> idx, parsed |-> parsed, ok |-> FALSE, at |-> why])
    /\ pc' = "loop"
    /\ idx' = idx + 1
    /\ outcome' = Append(outcome, "store_raised")
    /\ UNCHANGED <<table, clock, event, bucket_name, object_key, booking, result, getCalls>>
    /\ trace' = Append(trace, [op |-> "store", record |-> idx, ok |-> FALSE])
    /\ UNCHANGED otherVars
    /\ response' = Unbound

\* store_result(parsed) raises (ClientError or any other error, logged and
\* re-raised): the handler does not catch it.
StoreRaises(why) ==
    /\ pc = "store"
    /\ parsed' = [f \in DOMAIN parsed \cup {"confirmation"} |->
                     IF f = "confirmation" THEN StoreConfirmation(parsed) ELSE parsed[f]]
    /\ storeCalls' = Append(storeCalls,
                            [record |-> idx, parsed |-> parsed, ok |-> FALSE, at |-> why])
    /\ pc' = "raised"
    /\ result' = [kind |-> "raised", why |-> why]
    /\ outcome' = Append(outcome, "store_raised")
    /\ UNCHANGED <<table, clock, event, idx, bucket_name, object_key, booking, getCalls>>
    /\ trace' = Append(trace, [op |-> "store", record |-> idx, ok |-> FALSE])
    /\ UNCHANGED otherVars
    /\ response' = Unbound

StoreClientError == StoreRaises("ClientError")

StoreException == StoreRaises("Exception")

\* The loop is over: return {"statusCode": 200, "body": "OK"}
Return ==
    /\ pc = "loop"
    /\ idx > Len(Records(event))
    /\ pc' = "returned"
    /\ result' = [statusCode |-> 200, body |-> "OK"]
    /\ UNCHANGED <<table, clock, event, idx, handlerLocals, getCalls,
                   storeCalls, outcome>>
    /\ UNCHANGED trace
    /\ UNCHANGED otherVars
    /\ response' = Unbound

(***************************************************************************)
(* GET /bookings/{confirmation}                                            *)
(***************************************************************************)
\* The service finds the item or not, and the router answers.
GetBooking(confirmation) ==
    /\ LET found == service_get_booking_by_id(table, confirmation)
       IN  response' = [confirmation |-> confirmation,
                        booking |-> found,
                        http |-> router_get_booking_by_id(found, confirmation)]
    /\ UNCHANGED <<table, clock, event, pc, idx, handlerLocals, result,
                   getCalls, storeCalls, outcome>>
    /\ UNCHANGED <<trace, otherVars>>

\* get_item raises ClientError: logged and re-raised, the request fails.
GetBookingClientError(confirmation) ==
    /\ response' = [confirmation |-> confirmation,
                    booking |-> [kind |-> "raised", why |-> "ClientError"],
                    http |-> [status |-> 500, detail |-> <<"Internal Server Error">>]]
    /\ UNCHANGED <<table, clock, event, pc, idx, handlerLocals, result,
                   getCalls, storeCalls, outcome>>
    /\ UNCHANGED <<trace, otherVars>>

Next ==
    \/ \E ev \in EventSamples : Invoke(ev)
    \/ SkipNonS3
    \/ GetObjectOk
    \/ GetObjectClientError
    \/ \E b \in BookingSamples : ParseOk(b)
    \/ ParseValueError
    \/ ParseException
    \/ \E t \in 0..MaxClock : StoreOk(t)
    \/ StoreClientError
    \/ StoreException
    \/ Return
    \/ \E c \in RequestSamples : GetBooking(c)
    \/ \E c \in RequestSamples : GetBookingClientError(c)

Spec == Init /\ [][Next]_vars

(***************************************************************************)
(* GET /bookings/: DynamoDBService.get_bookings_by_date_range, a paginated *)
(* table scan with an optional filter on one date attribute.               *)
(***************************************************************************)
MaxItems == 2   \* items in the table the scan reads
MaxPage == 2    \* items DynamoDB evaluates for one page

\* The strings the scan compares, as character sequences
DateChars(y1, y2, y3, y4, m1, m2, d1, d2) ==
    <<y1, y2, y3, y4, "-", m1, m2, "-", d1, d2>>
InstantChars(s) ==
    DateChars("2", "0", "2", "5", "1", "1", "1", "7")
        \o <<"T", "1", "0", ":", "0", "0", ":", "0", s>>
ComparedChars ==
    {<<>>,
     DateChars("2", "0", "2", "5", "0", "3", "2", "0"),
     DateChars("2", "0", "2", "5", "0", "4", "0", "1"),
     DateChars("2", "0", "2", "5", "1", "1", "1", "7"),
     InstantChars("0"), InstantChars("1")}

\* The characters of a str the scan compares
CharsOf(s) == CHOOSE cs \in ComparedChars : Join(cs) = s

\* ord(c) for the characters of ISO dates and instants
Ord(c) ==
    CASE c = "-" -> 45
      [] c = "0" -> 48 [] c = "1" -> 49 [] c = "2" -> 50 [] c = "3" -> 51
      [] c = "4" -> 52 [] c = "5" -> 53 [] c = "6" -> 54 [] c = "7" -> 55
      [] c = "8" -> 56 [] c = "9" -> 57
      [] c = ":" -> 58
      [] c = "T" -> 84

\* a <= b for two strings, as DynamoDB compares String attributes: by code
\* point from the left, a proper prefix sorting first
RECURSIVE CharsLeq(_, _)
CharsLeq(a, b) ==
    IF a = <<>> THEN TRUE
    ELSE IF b = <<>> THEN FALSE
    ELSE IF Ord(Head(a)) # Ord(Head(b)) THEN Ord(Head(a)) < Ord(Head(b))
    ELSE CharsLeq(Tail(a), Tail(b))

StringLeq(a, b) == CharsLeq(CharsOf(a), CharsOf(b))

\* The item store_result writes for Booking b read from bucket1/m at clock t
StoredItem(b, t) ==
    LET p == model_dump(b) @@ [source_bucket |-> Str("bucket1"),
                               source_key |-> Str("m"), id |-> Str("m")]
        now == IsoInstant(t)
    IN  CHOOSE it \in update_item({}, StoreConfirmation(p), StoreValues(p, now), now) : TRUE

\* Three bookings under three confirmations, stored at two instants
ScanItems ==
    {StoredItem(BookingA, 0),
     StoredItem([BookingB EXCEPT !.confirmation = Str("MAQ2202080")], 1),
     StoredItem([BookingA EXCEPT !.confirmation = Str("MAQ3303090"),
                                 !.check_in_date = Date(2025, 11, 17),
                                 !.check_out_date = Date(2025, 11, 20)], 1)}

ScanTables == {t \in SUBSET ScanItems : Cardinality(t) <= MaxItems}

\* The orders in which a scan can meet the items of a table
Orders(tbl) ==
    {o \in SeqsUpTo(tbl, Cardinality(tbl)) :
        Len(o) = Cardinality(tbl) /\ \A i, j \in 1..Len(o) : i # j => o[i] # o[j]}

\* What a client sends as start_date / end_date (None: not sent) and date_field
StartDateSamples == {None, Str(""), Str("2025-03-20"), Str("2025-11-17")}
EndDateSamples == {None, Str(""), Str("2025-04-01"), Str("2025-11-17")}
DateFieldSamples == {"check_in_date", "created_at", "reference"}

\* A plausible slip: the bounds are written as strict comparisons.
scan_kwargs_Exclusive(start_date, end_date, date_field) ==
    LET starts == IF Truthy(start_date)
                  THEN <<[name |-> "#" \o date_field, op |-> ">", value |-> ":start_date"]>>
                  ELSE <<>>
        ends == IF Truthy(end_date)
                THEN <<[name |-> "#" \o date_field, op |-> "<", value |-> ":end_date"]>>
                ELSE <<>>
        names == IF Truthy(start_date) \/ Truthy(end_date)
                 THEN ("#" \o date_field) :> date_field ELSE <<>>
        values == (IF Truthy(start_date) THEN ":start_date" :> start_date ELSE <<>>)
                  @@ (IF Truthy(end_date) THEN ":end_date" :> end_date ELSE <<>>)
    IN  IF starts \o ends # <<>>
        THEN [FilterExpression |-> starts \o ends,
              ExpressionAttributeNames |-> names,
              ExpressionAttributeValues |-> values]
        ELSE <<>>

\* scan_kwargs as get_bookings_by_date_range builds them: one comparison per
\* truthy bound, joined with AND (the sequence), and no filter keys at all
\* when neither bound is truthy
scan_kwargs(start_date, end_date, date_field) ==
    LET starts == IF Truthy(start_date)
                  THEN <<[name |-> "#" \o date_field, op |-> ">=", value |-> ":start_date"]>>
                  ELSE <<>>
        ends == IF Truthy(end_date)
                THEN <<[name |-> "#" \o date_field, op |-> "<=", value |-> ":end_date"]>>
                ELSE <<>>
        names == IF Truthy(start_date) \/ Truthy(end_date)
                 THEN ("#" \o date_field) :> date_field ELSE <<>>
        values == (IF Truthy(start_date) THEN ":start_date" :> start_date ELSE <<>>)
                  @@ (IF Truthy(end_date) THEN ":end_date" :> end_date ELSE <<>>)
    IN  IF starts \o ends # <<>>
        THEN [FilterExpression |-> starts \o ends,
              ExpressionAttributeNames |-> names,
              ExpressionAttributeValues |-> values]
        ELSE <<>>

\* One comparison of a FilterExpression on one item: false when the item
\* lacks the attribute or holds a value of another type than the operand
ConditionHolds(item, cond, kwargs) ==
    LET attr == kwargs["ExpressionAttributeNames"][cond.name]
        operand == kwargs["ExpressionAttributeValues"][cond.value]
    IN  /\ attr \in DOMAIN item
        /\ item[attr].kind = "str"
        /\ operand.kind = "str"
        /\ CASE cond.op = ">=" -> StringLeq(operand.v, item[attr].v)
             [] cond.op = "<=" -> StringLeq(item[attr].v, operand.v)
             [] cond.op = ">"  -> ~StringLeq(item[attr].v, operand.v)
             [] cond.op = "<"  -> ~StringLeq(operand.v, item[attr].v)

FilterHolds(item, kwargs) ==
    "FilterExpression" \in DOMAIN kwargs =>
        \A n \in 1..Len(kwargs["FilterExpression"]) :
            ConditionHolds(item, kwargs["FilterExpression"][n], kwargs)

\* table.scan(**kwargs) when the table is met in the given order and
\* DynamoDB evaluates up to n items for this page: it resumes after
\* ExclusiveStartKey, returns those of the evaluated items that pass the
\* filter, and LastEvaluatedKey (the key of the last item evaluated) when
\* items remain, or when the page was cut exactly at the end (atEnd)
table_scan(order, kwargs, n, atEnd) ==
    LET begin == IF "ExclusiveStartKey" \in DOMAIN kwargs
                 THEN CHOOSE i \in 1..Len(order) :
                          order[i]["confirmation"] = kwargs["ExclusiveStartKey"]["confirmation"]
                 ELSE 0
        last == IF begin + n < Len(order) THEN begin + n ELSE Len(order)
        evaluated == SubSeq(order, begin + 1, last)
        Passes(it) == FilterHolds(it, kwargs)
        page == [Items |-> SelectSeq(evaluated, Passes), ScannedCount |-> Len(evaluated)]
    IN  IF last < Len(order) \/ (atEnd /\ last > begin)
        THEN page @@ ("LastEvaluatedKey" :> [confirmation |-> order[last]["confirmation"]])
        ELSE page

\* What a scan request leaves alone
scanFrame == <<table, clock, event, pc, idx, handlerLocals, result, getCalls,
               storeCalls, outcome, response, trace, llm>>

\* The table holds bookings stored earlier; no request is in progress.
InitScan ==
    /\ table \in ScanTables
    /\ clock = 0
    /\ event = [context |-> None]
    /\ pc = "idle"
    /\ idx = 0
    /\ bucket_name = Unbound /\ object_key = Unbound
    /\ booking = Unbound /\ parsed = Unbound
    /\ result = Unbound
    /\ getCalls = <<>> /\ storeCalls = <<>> /\ outcome = <<>>
    /\ response = Unbound
    /\ trace = <<>>
    /\ scan = Unbound
    /\ llm = Unbound

\* GET /bookings/ arrives: the service builds scan_kwargs and starts with an
\* empty all_items. order is the order in which this scan meets the items.
ScanStart(start_date, end_date, date_field, order) ==
    /\ scan = Unbound
    /\ order \in Orders(table)
    /\ scan' = [pc |-> "scan",
                start_date |-> start_date, end_date |-> end_date,
                date_field |-> date_field, order |-> order,
                scan_kwargs |-> scan_kwargs(start_date, end_date, date_field),
                response |-> Unbound,
                all_items |-> <<>>,
                calls |-> <<>>, pages |-> <<>>,
                http |-> Unbound]
    /\ UNCHANGED scanFrame

\* A plausible slip: the loop never asks for a further page.
MorePages_Never(resp) == FALSE

\* while "LastEvaluatedKey" in response
MorePages(resp) == "LastEvaluatedKey" \in DOMAIN resp

\* The next scan call is due: the first one, or one more turn of the loop
ScanDue == scan # Unbound /\ scan.pc = "scan"
           /\ (scan.response = Unbound \/ MorePages(scan.response))

\* response = self.table.scan(**scan_kwargs); all_items.extend(Items), with
\* ExclusiveStartKey = the previous LastEvaluatedKey from the second call on
ScanCall(n, atEnd) ==
    /\ ScanDue
    /\ n \in 1..MaxPage
    /\ LET kwargs == IF scan.response = Unbound
                     THEN scan.scan_kwargs
                     ELSE ("ExclusiveStartKey" :> scan.response["LastEvaluatedKey"])
                              @@ scan.scan_kwargs
           resp == table_scan(scan.order, kwargs, n, atEnd)
       IN  scan' = [scan EXCEPT !.scan_kwargs = kwargs,
                                !.response = resp,
                                !.all_items = scan.all_items \o resp["Items"],
                                !.calls = Append(scan.calls, kwargs),
                                !.pages = Append(scan.pages, resp)]
    /\ UNCHANGED scanFrame

\* table.scan raises ClientError: logged and re-raised, the request fails.
ScanClientError ==
    /\ ScanDue
    /\ scan' = [scan EXCEPT !.pc = "raised",
                            !.calls = Append(scan.calls, scan.scan_kwargs),
                            !.http = [status |-> 500, detail |-> <<"Internal Server Error">>]]
    /\ UNCHANGED scanFrame

\* The loop is over: the service returns the converted items and the router
\* answers with BookingsListResponse(bookings, count).
ScanReturn ==
    /\ scan # Unbound /\ scan.pc = "scan"
    /\ scan.response # Unbound
    /\ ~MorePages(scan.response)
    /\ LET bookings == [i \in 1..Len(scan.all_items) |->
                            convert_dynamodb_item(scan.all_items[i])]
       IN  scan' = [scan EXCEPT
                       !.pc = "done",
                       !.http = IF \A i \in 1..Len(bookings) : ResponseValid(bookings[i])
                                THEN [status |-> 200,
                                      bookings |-> [i \in 1..Len(bookings) |->
                                                       BookingResponse(bookings[i])],
                                      count |-> Len(bookings)]
                                ELSE [status |-> 500, detail |-> <<"validation error">>]]
    /\ UNCHANGED scanFrame

\* One step of a request in progress
ScanStep ==
    \/ \E n \in 1..MaxPage, atEnd \in BOOLEAN : ScanCall(n, atEnd)
    \/ ScanClientError
    \/ ScanReturn

NextScan ==
    \/ \E start_date \in StartDateSamples, end_date \in EndDateSamples,
          date_field \in DateFieldSamples, order \in Orders(table) :
           ScanStart(start_date, end_date, date_field, order)
    \/ \E n \in 1..MaxPage, atEnd \in BOOLEAN : ScanCall(n, atEnd)
    \/ ScanClientError
    \/ ScanReturn

SpecScan == InitScan /\ [][NextScan]_vars

\* The request thread keeps running once a request has arrived.
SpecScanFair == SpecScan /\ WF_vars(ScanStep)

(***************************************************************************)
(* llm_extract_email: the arguments of the model's first tool call are     *)
(* read as JSON and validated as an ExtractionResult.                      *)
(***************************************************************************)
MaxToolCalls == 2   \* tool calls in one response of the model

\* Python values json.loads produces besides None, str and bool
PyInt(n) == [kind |-> "int", v |-> n]
Dict(f) == [kind |-> "dict", v |-> f]
List(s) == [kind |-> "list", v |-> s]

\* The outcome of validating one value
Ok(x) == [ok |-> TRUE, v |-> x]
Invalid == [ok |-> FALSE]

Digits == {"0", "1", "2", "3", "4", "5", "6", "7", "8", "9"}
IsDigits(cs) == cs # <<>> /\ \A i \in 1..Len(cs) : cs[i] \in Digits

\* int(cs) for a string of digits
RECURSIVE NumOf(_)
NumOf(cs) ==
    IF cs = <<>> THEN 0
    ELSE NumOf(SubSeq(cs, 1, Len(cs) - 1)) * 10 + (Ord(cs[Len(cs)]) - 48)

IsLeap(y) == (y % 4 = 0 /\ y % 100 # 0) \/ y % 400 = 0
DaysIn(y, m) ==
    CASE m \in {1, 3, 5, 7, 8, 10, 12} -> 31
      [] m \in {4, 6, 9, 11}           -> 30
      [] m = 2                         -> IF IsLeap(y) THEN 29 ELSE 28

\* str: a str is taken as it is, nothing else is coerced
validate_str(x) == IF x.kind = "str" THEN Ok(Str(x.v)) ELSE Invalid

\* date: a str "YYYY-MM-DD" naming a real day, or a whole number of days as
\* Unix seconds (the sample timestamps lie in January 1970)
validate_date(x) ==
    CASE x.kind = "str" ->
            LET cs == x.chars
            IN  IF /\ Len(cs) = 10
                   /\ cs[5] = "-" /\ cs[8] = "-"
                   /\ IsDigits(SubSeq(cs, 1, 4))
                   /\ IsDigits(SubSeq(cs, 6, 7))
                   /\ IsDigits(SubSeq(cs, 9, 10))
                   /\ NumOf(SubSeq(cs, 1, 4)) >= 1
                   /\ NumOf(SubSeq(cs, 6, 7)) \in 1..12
                   /\ NumOf(SubSeq(cs, 9, 10)) \in
                          1..DaysIn(NumOf(SubSeq(cs, 1, 4)), NumOf(SubSeq(cs, 6, 7)))
                THEN Ok(Date(NumOf(SubSeq(cs, 1, 4)), NumOf(SubSeq(cs, 6, 7)),
                             NumOf(SubSeq(cs, 9, 10))))
                ELSE Invalid
      [] x.kind = "int" ->
            IF x.v >= 0 /\ x.v % 86400 = 0 /\ x.v \div 86400 < 31
            THEN Ok(Date(1970, 1, x.v \div 86400 + 1))
            ELSE Invalid
      [] OTHER -> Invalid

\* Decimal: an int, or a str of digits with at most one point and two places
validate_decimal(x) ==
    CASE x.kind = "int" -> Ok(Decimal(x.v, 0))
      [] x.kind = "str" ->
            LET cs == x.chars
                n == Len(cs)
            IN  IF IsDigits(cs) THEN Ok(Decimal(NumOf(cs), 0))
                ELSE IF /\ n >= 4 /\ cs[n - 2] = "."
                        /\ IsDigits(SubSeq(cs, 1, n - 3))
                        /\ IsDigits(SubSeq(cs, n - 1, n))
                     THEN Ok(Decimal(NumOf(SubSeq(cs, 1, n - 3)) * 100
                                         + NumOf(SubSeq(cs, n - 1, n)), -2))
                     ELSE Invalid
      [] OTHER -> Invalid

\* bool: a bool, 0 or 1, or one of the words pydantic reads as a bool
validate_bool(x) ==
    CASE x.kind = "bool" -> Ok(Bool(x.v))
      [] x.kind = "int" -> IF x.v \in {0, 1} THEN Ok(Bool(x.v = 1)) ELSE Invalid
      [] x.kind = "str" ->
            IF x.v \in {"1", "on", "t", "true", "y", "yes"} THEN Ok(Bool(TRUE))
            ELSE IF x.v \in {"0", "off", "f", "false", "n", "no"} THEN Ok(Bool(FALSE))
            ELSE Invalid
      [] OTHER -> Invalid

\* Where "://" starts in cs, or 0
SchemeEnd(cs) ==
    LET at == {i \in 1..Len(cs) : i + 2 <= Len(cs) /\ cs[i] = ":" /\ cs[i + 1] = "/"
                                   /\ cs[i + 2] = "/"}
    IN  IF at = {} THEN 0 ELSE CHOOSE i \in at : \A j \in at : i <= j

\* HttpUrl: a str with scheme http or https and a host
validate_url(x) ==
    IF x.kind # "str" THEN Invalid
    ELSE LET cs == x.chars
             e == SchemeEnd(cs)
             rest == SubSeq(cs, e + 3, Len(cs))
             slashes == {i \in 1..Len(rest) : rest[i] = "/"}
             cut == IF slashes = {} THEN Len(rest) + 1
                    ELSE CHOOSE i \in slashes : \A j \in slashes : i <= j
         IN  IF /\ e > 0
                /\ Join(SubSeq(cs, 1, e - 1)) \in {"http", "https"}
                /\ cut > 1
             THEN Ok(HttpUrl(Join(SubSeq(cs, 1, e - 1)), Join(SubSeq(rest, 1, cut - 1)),
                             Join(SubSeq(rest, cut, Len(rest)))))
             ELSE Invalid

\* The declared type of each Booking field
FieldType(f) ==
    CASE f \in {"check_in_date", "check_out_date", "booking_date"} -> "date"
      [] f \in {"early_check_in_cost", "amount_paid", "amount_total"} -> "decimal"
      [] f = "breakfast_included" -> "bool"
      [] f = "website" -> "url"
      [] OTHER -> "str"

validate_field(f, x) ==
    CASE FieldType(f) = "date"    -> validate_date(x)
      [] FieldType(f) = "decimal" -> validate_decimal(x)
      [] FieldType(f) = "bool"    -> validate_bool(x)
      [] FieldType(f) = "url"     -> validate_url(x)
      [] OTHER                    -> validate_str(x)

\* Booking(**d): every field is required and none accepts None; keys that
\* are not fields are ignored
validate_Booking(d) ==
    IF /\ d.kind = "dict"
       /\ \A f \in BookingFields : f \in DOMAIN d.v /\ validate_field(f, d.v[f]).ok
    THEN Ok([f \in BookingFields |-> validate_field(f, d.v[f]).v])
    ELSE Invalid

\* A plausible slip: booking defaults to None when the arguments lack it.
validate_ExtractionResult_BookingOptional(args) ==
    IF /\ "kind" \in DOMAIN args /\ validate_str(args["kind"]).ok
       /\ "booking" \in DOMAIN args =>
              (args["booking"] = None \/ validate_Booking(args["booking"]).ok)
    THEN Ok([kind |-> validate_str(args["kind"]).v,
             booking |-> IF "booking" \notin DOMAIN args \/ args["booking"] = None
                         THEN None
                         ELSE validate_Booking(args["booking"]).v])
    ELSE Invalid

\* ExtractionResult(**args): kind is a required str, booking is required and
\* is None or a valid Booking
validate_ExtractionResult(args) ==
    IF /\ "kind" \in DOMAIN args /\ validate_str(args["kind"]).ok
       /\ "booking" \in DOMAIN args
       /\ (args["booking"] = None \/ validate_Booking(args["booking"]).ok)
    THEN Ok([kind |-> validate_str(args["kind"]).v,
             booking |-> IF args["booking"] = None THEN None
                         ELSE validate_Booking(args["booking"]).v])
    ELSE Invalid

\* The text of a tool call's arguments: the value it denotes as JSON, or
\* text that is not JSON
NotJson == [kind |-> "not_json"]

Raised(why) == [kind |-> "raised", why |-> why]

\* llm_extract_email from the model's response on: the first tool call's
\* arguments are parsed and validated; every failure is an exception.
extract_from_response(resp) ==
    IF resp.tool_calls.kind = "null" THEN Raised("TypeError")
    ELSE IF resp.tool_calls.v = <<>> THEN Raised("IndexError")
    ELSE LET args == resp.tool_calls.v[1].arguments
         IN  IF args = NotJson THEN Raised("JSONDecodeError")
             ELSE IF args.kind # "dict" THEN Raised("TypeError")
             ELSE IF validate_ExtractionResult(args.v).ok
                  THEN [kind |-> "returned", value |-> validate_ExtractionResult(args.v).v]
                  ELSE Raised("ValidationError")

\* The fields of a booking as the model writes them when all is well
GoodBookingJson ==
    [name |-> StrOfChars(<<"A", "n", "n">>),
     confirmation |-> StrOfChars(<<"M", "A", "Q", "1", "1", "0", "1", "9", "7", "0">>),
     check_in_date |-> StrOfChars(<<"2", "0", "2", "5", "-", "0", "3", "-", "2", "0">>),
     check_out_date |-> StrOfChars(<<"2", "0", "2", "5", "-", "0", "3", "-", "2", "8">>),
     check_in_time |-> StrOfChars(<<"3", "p", "m">>),
     check_out_time |-> StrOfChars(<<"1", "2", "p", "m">>),
     early_check_in_time |-> StrOfChars(<<"3", "p", "m">>),
     early_check_in_cost |-> StrOfChars(<<"1", "5">>),
     breakfast_included |-> Bool(FALSE),
     cancellation_terms |-> StrOfChars(<<>>),
     address |-> StrOfChars(<<"N", "W", "1">>),
     city |-> StrOfChars(<<"L", "o", "n", "d", "o", "n">>),
     booking_date |-> StrOfChars(<<"2", "0", "2", "5", "-", "0", "1", "-", "2", "0">>),
     what3words |-> StrOfChars(<<"a", ".", "b", ".", "c">>),
     website |-> StrOfChars(<<"h", "t", "t", "p", "s", ":", "/", "/", "p", "r", "e", "m", "i", "e", "r", "i", "n", "n", ".", "c", "o", "m">>),
     amount_paid |-> StrOfChars(<<"0">>),
     amount_total |-> StrOfChars(<<"7", "8", "5", ".", "0", "0">>),
     room_type |-> StrOfChars(<<"H", "u", "b">>)]

\* The same booking with values pydantic coerces: dates as Unix seconds,
\* amounts as numbers, the flag as a word
LaxBookingJson ==
    [GoodBookingJson EXCEPT !.check_in_date = PyInt(0), !.check_out_date = PyInt(86400),
                            !.early_check_in_cost = PyInt(15), !.amount_paid = PyInt(0),
                            !.breakfast_included = StrOfChars(<<"y", "e", "s">>)]

\* A value the field's type rejects
BadValue(f) ==
    CASE FieldType(f) = "date"    -> StrOfChars(<<"2", "0", "2", "5", "-", "0", "2", "-", "3", "0">>)
      [] FieldType(f) = "decimal" -> StrOfChars(<<"a", "b", "c">>)
      [] FieldType(f) = "bool"    -> PyInt(2)
      [] FieldType(f) = "url"     -> StrOfChars(<<"p", "r", "e", "m", "i", "e", "r", "i", "n", "n", ".", "c", "o", "m">>)
      [] OTHER                    -> PyInt(7)

Without(d, f) == [g \in DOMAIN d \ {f} |-> d[g]]

\* What the model may put under "booking"
BookingJsonSamples ==
    {None, StrOfChars(<<"n", "o", "n", "e">>), List(<<>>),
     Dict(GoodBookingJson), Dict(LaxBookingJson),
     Dict(GoodBookingJson @@ [note |-> PyInt(7)])}
    \cup {Dict(Without(GoodBookingJson, f)) : f \in BookingFields}
    \cup {Dict([GoodBookingJson EXCEPT ![f] = None]) : f \in BookingFields}
    \cup {Dict([GoodBookingJson EXCEPT ![f] = BadValue(f)]) : f \in BookingFields}

\* What the model may put under "kind"
KindJsonSamples ==
    {StrOfChars(<<"b", "o", "o", "k", "i", "n", "g">>),
     StrOfChars(<<"m", "a", "r", "k", "e", "t", "i", "n", "g">>),
     None, PyInt(7)}

\* The arguments of a tool call: not JSON, JSON that is no object, and
\* objects with or without kind and booking
ArgumentSamples ==
    {NotJson, None, List(<<>>), StrOfChars(<<"{", "}">>), Dict(<<>>)}
    \cup {Dict([kind |-> k, booking |-> b]) : k \in KindJsonSamples, b \in BookingJsonSamples}
    \cup {Dict([kind |-> k]) : k \in KindJsonSamples}
    \cup {Dict([booking |-> b]) : b \in BookingJsonSamples}
    \cup {Dict([kind |-> k, booking |-> Dict(GoodBookingJson), note |-> PyInt(7)]) :
              k \in KindJsonSamples}

ToolCall(args) == [name |-> "extract_booking", arguments |-> args]

\* Arguments for responses with several tool calls
FewArguments ==
    {NotJson,
     Dict([kind |-> StrOfChars(<<"m", "a", "r", "k", "e", "t", "i", "n", "g">>),
           booking |-> None]),
     Dict([kind |-> StrOfChars(<<"b", "o", "o", "k", "i", "n", "g">>),
           booking |-> Dict(GoodBookingJson)])}

\* response.choices[0].message of the model: no tool_calls, or some
ResponseSamples ==
    {[tool_calls |-> None]}
    \cup {[tool_calls |-> List(s)] : s \in SeqsUpTo({ToolCall(a) : a \in FewArguments}, MaxToolCalls)}
    \cup {[tool_calls |-> List(<<ToolCall(a)>>)] : a \in ArgumentSamples}

\* What a call of llm_extract_email leaves alone
llmFrame == <<table, clock, event, pc, idx, handlerLocals, result, getCalls,
              storeCalls, outcome, response, trace, scan>>

\* No call of llm_extract_email has been made.
InitLLM ==
    /\ table = {}
    /\ clock = 0
    /\ event = [context |-> None]
    /\ pc = "idle"
    /\ idx = 0
    /\ bucket_name = Unbound /\ object_key = Unbound
    /\ booking = Unbound /\ parsed = Unbound
    /\ result = Unbound
    /\ getCalls = <<>> /\ storeCalls = <<>> /\ outcome = <<>>
    /\ response = Unbound
    /\ trace = <<>>
    /\ scan = Unbound
    /\ llm = Unbound

\* client.chat.completions.create(...) returns the model's response.
LlmResponds(resp) ==
    /\ llm = Unbound
    /\ llm' = [pc |-> "responded", response |-> resp, result |-> Unbound]
    /\ UNCHANGED llmFrame

\* client.chat.completions.create(...) raises: nothing catches it.
LlmApiError ==
    /\ llm = Unbound
    /\ llm' = [pc |-> "ended", response |-> Unbound, result |-> Raised("APIError")]
    /\ UNCHANGED llmFrame

\* The rest of llm_extract_email: it returns an ExtractionResult or raises.
LlmExtract ==
    /\ llm # Unbound /\ llm.pc = "responded"
    /\ llm' = [llm EXCEPT !.pc = "ended", !.result = extract_from_response(llm.response)]
    /\ UNCHANGED llmFrame

NextLLM ==
    \/ \E resp \in ResponseSamples : LlmResponds(resp)
    \/ LlmApiError
    \/ LlmExtract

SpecLLM == InitLLM /\ [][NextLLM]_vars

(***************************************************************************)
(* Properties.                                                             *)
(***************************************************************************)
OK200 == [statusCode |-> 200, body |-> "OK"]

Finished == pc \in {"returned", "raised"}

\* The event source of a record as the specification reads it: eventSource,
\* or EventSource when the record has no eventSource.
SourceClaimed(r) ==
    IF "eventSource" \in DOMAIN r /\ r["eventSource"] \notin {None, Str("")}
    THEN r["eventSource"]
    ELSE IF "EventSource" \in DOMAIN r THEN r["EventSource"] ELSE None

IsS3Claimed(r) == SourceClaimed(r) = Str("aws:s3")

\* The calls made for the record at position i
GetCallsFor(i) == {n \in 1..Len(getCalls) : getCalls[n].record = i}
StoreCallsFor(i) == {n \in 1..Len(storeCalls) : storeCalls[n].record = i}

\* URL decoding as the specification states it, in one pass over the key:
\* '+' is a space, %20 %25 %2B %2F are the characters they encode.
RECURSIVE PercentDecoded(_)
PercentDecoded(cs) ==
    IF cs = <<>> THEN <<>>
    ELSE IF Head(cs) = "+" THEN <<" ">> \o PercentDecoded(Tail(cs))
    ELSE IF Head(cs) = "%" /\ Len(cs) >= 3
         THEN LET esc == <<cs[2], cs[3]>>
                  rest == PercentDecoded(SubSeq(cs, 4, Len(cs)))
              IN  CASE esc = <<"2", "0">> -> <<" ">> \o rest
                    [] esc = <<"2", "5">> -> <<"%">> \o rest
                    [] esc = <<"2", "B">> -> <<"+">> \o rest
                    [] esc = <<"2", "F">> -> <<"/">> \o rest
                    [] OTHER -> <<"%">> \o PercentDecoded(Tail(cs))
    ELSE <<Head(cs)>> \o PercentDecoded(Tail(cs))

IsEncoded(cs) == \E i \in 1..Len(cs) : cs[i] \in {"+", "%"}

\* C1 as stated: whenever s3.get_object raised ClientError on a record of the
\* batch, lambda_handler does not raise and, once finished, has returned
\* {"statusCode": 200, "body": "OK"}.
C1_FetchErrorNeverRaises ==
    (\E i \in 1..Len(outcome) : outcome[i] = "fetch_error")
        => /\ pc # "raised"
           /\ (Finished => result = OK200)

\* C1 amended: a record on which s3.get_object raised ClientError has no
\* store_result call, the handler has gone on past it without raising on its
\* account (only a raising store_result of another record makes it raise),
\* and when no store_result call raises it finishes by returning
\* {"statusCode": 200, "body": "OK"}.
C1_FetchErrorIsSkipped ==
    \A i \in 1..Len(outcome) :
        outcome[i] = "fetch_error"
            => /\ StoreCallsFor(i) = {}
               /\ Cardinality(GetCallsFor(i)) = 1
               /\ idx > i
               /\ pc = "raised" => /\ outcome[Len(outcome)] = "store_raised"
                                   /\ Len(outcome) # i
               /\ (Finished /\ \A j \in 1..Len(outcome) : outcome[j] # "store_raised")
                      => pc = "returned" /\ result = OK200

C1_Witness ==
    /\ pc = "returned"
    /\ Len(outcome) = 2
    /\ outcome[1] = "fetch_error"
    /\ outcome[2] = "stored"

\* C2: a record whose eventSource (or EventSource) is not "aws:s3" has no
\* s3.get_object call and no store_result call; an event made only of such
\* records causes no fetch and no store at all.
C2_NonS3RecordsUntouched ==
    /\ \A i \in 1..Len(Records(event)) :
           ~IsS3Claimed(Records(event)[i]) => GetCallsFor(i) = {} /\ StoreCallsFor(i) = {}
    /\ (\A i \in 1..Len(Records(event)) : ~IsS3Claimed(Records(event)[i]))
           => getCalls = <<>> /\ storeCalls = <<>>

C2_Witness ==
    /\ pc = "returned"
    /\ Len(outcome) = 2
    /\ "EventSource" \in DOMAIN Records(event)[1]
    /\ "eventSource" \in DOMAIN Records(event)[1]
    /\ outcome[1] = "skipped"
    /\ outcome[2] = "stored"

\* C3 as stated: when lambda_handler has finished, every aws:s3 record of the
\* batch has exactly one s3.get_object call, and store_result was called
\* exactly once per aws:s3 record whose fetch and parse both succeeded.
C3_OneFetchPerS3Record ==
    Finished =>
        /\ \A i \in 1..Len(Records(event)) :
               IsS3Claimed(Records(event)[i]) => Cardinality(GetCallsFor(i)) = 1
        /\ Len(getCalls) = Cardinality({i \in 1..Len(Records(event)) :
                                            IsS3Claimed(Records(event)[i])})

\* C3 amended: for every record the handler has reached there is exactly one
\* s3.get_object call if it is an aws:s3 record (none otherwise) and exactly
\* one store_result call if its fetch and parse both succeeded (none
\* otherwise); no call is made for a record not yet reached; a handler that
\* returned has reached every record, so then the number of store_result calls
\* equals the number of aws:s3 records fetched and parsed successfully; a
\* handler that raised stopped at the record whose store_result raised.
C3_CallCounts ==
    LET n == Len(Records(event))
        current == IF pc \in {"parse", "store", "raised"} THEN {idx} ELSE {}
        reached == 1..Len(outcome) \cup current
        storable == {i \in 1..Len(outcome) : outcome[i] \in {"stored", "store_raised"}}
    IN  /\ \A i \in 1..n :
               /\ Cardinality(GetCallsFor(i)) =
                      (IF i \in reached /\ IsS3Claimed(Records(event)[i]) THEN 1 ELSE 0)
               /\ Cardinality(StoreCallsFor(i)) = (IF i \in storable THEN 1 ELSE 0)
        /\ \A i \in storable : IsS3Claimed(Records(event)[i])
        /\ Len(getCalls) = Cardinality({i \in reached : IsS3Claimed(Records(event)[i])})
        /\ Len(storeCalls) = Cardinality(storable)
        /\ pc = "returned" => Len(outcome) = n
        /\ pc = "raised" => Len(outcome) = idx /\ outcome[idx] = "store_raised"

C3_Witness ==
    /\ pc = "returned"
    /\ Len(Records(event)) = 2
    /\ Len(getCalls) = 2
    /\ Len(storeCalls) = 1

\* C4: every s3.get_object call is made with Bucket equal to the bucket name
\* of its record and Key equal to the URL-decoded object key of that record
\* (escapes decoded, '+' decoded to a space), never with the raw encoded key.
C4_GetObjectArguments ==
    \A n \in 1..Len(getCalls) :
        LET call == getCalls[n]
            s3info == Records(event)[call.record]["s3"]
            raw == s3info["object"]["key"]
        IN  /\ call.Bucket = s3info["bucket"]["name"]
            /\ call.Key = Join(PercentDecoded(raw))
            /\ IsEncoded(raw) => call.Key # Join(raw)

C4_Witness ==
    \E n \in 1..Len(getCalls) :
        /\ getCalls[n].Key = "+m%2Fa"
        /\ getCalls[n].Bucket = "bucket1"

\* C5: every dict passed to store_result has source_bucket equal to the bucket
\* name of the record it came from, source_key equal to that record's decoded
\* object key, and an "id" key.
C5_StoredDictProvenance ==
    \A n \in 1..Len(storeCalls) :
        LET call == storeCalls[n]
            s3info == Records(event)[call.record]["s3"]
        IN  /\ "source_bucket" \in DOMAIN call.parsed
            /\ call.parsed["source_bucket"].v = s3info["bucket"]["name"]
            /\ "source_key" \in DOMAIN call.parsed
            /\ call.parsed["source_key"].v = Join(PercentDecoded(s3info["object"]["key"]))
            /\ "id" \in DOMAIN call.parsed

C5_Witness ==
    /\ Len(storeCalls) = 2
    /\ storeCalls[1].parsed["source_key"].v = "m a b"
    /\ storeCalls[2].parsed["source_key"].v = "m/a"
    /\ storeCalls[2].parsed["id"].v = "m_a"

\* C6: when no store_result call raises (whatever the mixture of skipped
\* records, S3 fetch errors and parse failures, and also with an empty or
\* missing Records list), lambda_handler does not raise and what it returns is
\* exactly {"statusCode": 200, "body": "OK"}.
C6_Returns200 ==
    (\A i \in 1..Len(outcome) : outcome[i] # "store_raised")
        => /\ pc # "raised"
           /\ pc = "returned" => result = OK200
           /\ (pc = "loop" /\ idx > Len(Records(event))) => ENABLED Return

C6_Witness ==
    /\ pc = "returned"
    /\ result = OK200
    /\ Len(outcome) = 2
    /\ outcome[1] = "fetch_error"
    /\ outcome[2] \in {"value_error", "parse_error"}

\* The attributes tests/test_premier_inn_parser.py expects on a Booking
ExpectedAttrs ==
    {"confirmation", "check_in_date", "check_out_date", "check_in_time",
     "check_out_time", "early_check_in", "address", "what3words", "website"}

\* a non-blank string, or a non-None value
Populated(x) == IF x.kind = "str" THEN x.v \notin {"", " "} ELSE x # None

\* C7: every Booking returned by parse_email has each of the attributes
\* confirmation, check_in_date, check_out_date, check_in_time, check_out_time,
\* early_check_in, address, what3words and website, and each is populated.
C7_ExpectedAttributesPopulated ==
    booking # Unbound
        => \A a \in ExpectedAttrs : a \in DOMAIN booking /\ Populated(booking[a])

\* The key a stored dict is filed under as the specification reads it: its
\* confirmation, or its id when the confirmation is blank.
ClaimedKey(g) == IF g["confirmation"].v # "" THEN g["confirmation"].v ELSE g["id"].v

\* The successful store_result calls, and the latest one filed under key c
Stored == {n \in 1..Len(storeCalls) : storeCalls[n].ok}
StoredFor(c) == {n \in Stored : ClaimedKey(storeCalls[n].parsed) = c}
LatestFor(c) == CHOOSE n \in StoredFor(c) : \A m \in StoredFor(c) : m <= n

\* The booking fields store_result writes
UpsertFields == (BookingFields \ {"confirmation"}) \cup {"source_bucket", "source_key"}

SameValue(x, y) == x.kind = y.kind /\ (x.kind # "null" => x.v = y.v)

\* C8: store_result is an upsert keyed by confirmation: the table holds
\* exactly one item per distinct confirmation stored, and the booking fields of
\* that item are those of the most recent successful call for it.
C8_UpsertByConfirmation ==
    LET keys == {ClaimedKey(storeCalls[n].parsed) : n \in Stored}
    IN  /\ \A a, b \in table : a["confirmation"].v = b["confirmation"].v => a = b
        /\ {it["confirmation"].v : it \in table} = keys
        /\ Cardinality(table) = Cardinality(keys)
        /\ \A it \in table :
               LET given == storeCalls[LatestFor(it["confirmation"].v)].parsed
               IN  \A f \in UpsertFields : f \in DOMAIN it /\ SameValue(it[f], given[f])

C8_Witness ==
    /\ Cardinality(table) = 1
    /\ Len(storeCalls) = 2
    /\ storeCalls[1].ok /\ storeCalls[2].ok
    /\ storeCalls[1].parsed["name"] # storeCalls[2].parsed["name"]
    /\ storeCalls[1].parsed["source_key"] # storeCalls[2].parsed["source_key"]

\* C9: once store_result has succeeded for confirmation c, a GET
\* /bookings/{c} that reaches the table answers with an item of confirmation c
\* whose booking fields equal those given to the latest successful
\* store_result for c, at whatever moment the request is made.
C9_PersistThenServe ==
    (/\ response # Unbound
     /\ response.booking.kind # "raised"
     /\ StoredFor(response.confirmation) # {})
        => LET given == storeCalls[LatestFor(response.confirmation)].parsed
           IN  /\ response.booking.kind = "dict"
               /\ response.booking.v["confirmation"].v = response.confirmation
               /\ \A f \in UpsertFields : SameValue(response.booking.v[f], given[f])
               /\ response.http.status = 200
               /\ response.http.body["confirmation"].v = response.confirmation
               /\ \A f \in UpsertFields : SameValue(response.http.body[f], given[f])

C9_Witness ==
    /\ response # Unbound
    /\ response.http.status = 200
    /\ Cardinality(StoredFor(response.confirmation)) = 2
    /\ storeCalls[1].parsed["name"].v = "Ann"
    /\ response.http.body["name"].v = "Bob"

\* C10: GET /bookings/{confirmation} answers with the details of the item of
\* that confirmation when the table holds one, answers 404 "Booking with
\* confirmation '<c>' not found" exactly when get_booking_by_id returns no
\* item, and never answers with a booking of another confirmation.
C10_FoundOrNotFound ==
    response # Unbound
        => LET c == response.confirmation
               items == {it \in table : it["confirmation"].v = c}
           IN  /\ (response.http.status = 404) <=> (response.booking = None)
               /\ response.http.status = 404
                     => response.http.detail = <<"Booking with confirmation '", c, "' not found">>
               /\ response.http.status = 200
                     => /\ response.http.body["confirmation"].v = c
                        /\ \E it \in items :
                               \A f \in DOMAIN it : response.http.body[f] = it[f]
               /\ response.booking.kind # "raised"
                     => /\ items # {} => response.http.status = 200
                        /\ items = {} => response.http.status = 404

C10_Witness ==
    /\ response # Unbound
    /\ response.http.status = 200
    /\ response.confirmation = "m_a"
    /\ Cardinality(table) = 2

\* The first successful store_result call filed under key c
FirstFor(c) == CHOOSE n \in StoredFor(c) : \A m \in StoredFor(c) : n <= m

\* C12: created_at is set on the first insert only: after any sequence of
\* successful store_result calls for one confirmation, the item's created_at
\* is the timestamp of the first of them and its updated_at the timestamp of
\* the most recent one.
C12_CreatedOnceUpdatedAlways ==
    \A it \in table :
        LET c == it["confirmation"].v
        IN  /\ StoredFor(c) # {}
            /\ it["created_at"] = Str(storeCalls[FirstFor(c)].at)
            /\ it["updated_at"] = Str(storeCalls[LatestFor(c)].at)

\* Two successful calls for one confirmation at different instants: the item
\* keeps the first instant as created_at and carries the second as updated_at.
C12_Witness ==
    \E it \in table :
        LET c == it["confirmation"].v
        IN  /\ Cardinality(StoredFor(c)) = 2
            /\ storeCalls[FirstFor(c)].at # storeCalls[LatestFor(c)].at
            /\ it["created_at"] = Str(storeCalls[FirstFor(c)].at)
            /\ it["updated_at"] = Str(storeCalls[LatestFor(c)].at)

\* The records whose parsing raised, by the kind of exception
ParseFailures == {"value_error", "parse_error"}
ParseFailedAt(i) == i \in 1..Len(outcome) /\ outcome[i] \in ParseFailures

\* C13: when parsing a fetched email raises (ValueError or any other
\* Exception), lambda_handler makes no store_result call for that record,
\* does not raise on it, and moves on to the next record.
C13_ParseErrorIsSkipped ==
    \A i \in 1..Len(outcome) :
        ParseFailedAt(i) =>
            /\ Cardinality(GetCallsFor(i)) = 1
            /\ StoreCallsFor(i) = {}
            /\ idx > i
            /\ pc = "raised" => Len(outcome) > i
            /\ \A n \in 1..Len(trace) :
                   (trace[n].op = "parse" /\ trace[n].record = i /\ n < Len(trace))
                       => trace[n + 1].record = i + 1

\* A record whose parsing raised an error other than ValueError, followed by
\* a later record that was handled, and the handler returned.
C13_Witness ==
    /\ pc = "returned"
    /\ \E i, j \in 1..Len(outcome) :
           /\ outcome[i] = "parse_error"
           /\ outcome[j] \in {"value_error", "stored"}
           /\ i < j

\* C14: an exception raised by store_result is not caught by lambda_handler:
\* it leaves the handler, no 200 response is returned, no record after
\* the failing one is fetched or stored, and what was stored before stays
\* stored.
C14_StoreErrorPropagates ==
    \A i \in 1..Len(outcome) :
        outcome[i] = "store_raised" =>
            /\ pc = "raised"
            /\ result.kind = "raised"
            /\ result.why \in {"ClientError", "Exception"}
            /\ result.why = storeCalls[Len(storeCalls)].at
            /\ result # OK200
            /\ idx = i
            /\ Len(outcome) = i
            /\ \A j \in (i + 1)..Len(Records(event)) :
                   GetCallsFor(j) = {} /\ StoreCallsFor(j) = {}
            /\ \A n \in Stored :
                   \E it \in table :
                       it["confirmation"].v = ClaimedKey(storeCalls[n].parsed)

\* store_result raised on the first record of a batch whose second record
\* is an aws:s3 record: the handler raised and the second record was never
\* fetched.
C14_Witness ==
    /\ pc = "raised"
    /\ outcome = <<"store_raised">>
    /\ Len(Records(event)) = 2
    /\ IsS3Record(Records(event)[2])
    /\ GetCallsFor(2) = {}
    /\ result.why = "ClientError"

\* A step after which the loop is done with its record
Terminal(e) ==
    \/ e.op = "skip"
    \/ e.op = "store"
    \/ e.op \in {"fetch", "parse"} /\ ~e.ok

\* C15: the records of a batch are handled strictly one after another in list
\* order: per record the steps are fetch, parse, store in that order; a
\* store_result call receives the data parsed from the record being handled,
\* never an earlier record's; and record i+1 is not fetched before record i
\* has been stored or skipped.
C15_OneRecordAtATime ==
    /\ \A n \in 1..Len(trace) :
           LET cur == trace[n]
           IN  /\ n = 1 => cur.record = 1 /\ cur.op \in {"skip", "fetch"}
               /\ n > 1 =>
                      LET prev == trace[n - 1]
                      IN  IF Terminal(prev)
                          THEN /\ cur.record = prev.record + 1
                               /\ cur.op \in {"skip", "fetch"}
                               /\ prev.op = "store" => prev.ok
                          ELSE /\ cur.record = prev.record
                               /\ \/ prev.op = "fetch" /\ cur.op = "parse"
                                  \/ prev.op = "parse" /\ cur.op = "store"
               /\ cur.op = "store" =>
                      /\ n > 1
                      /\ trace[n - 1].op = "parse"
                      /\ trace[n - 1].ok
                      /\ trace[n - 1].record = cur.record
                      /\ Cardinality(StoreCallsFor(cur.record)) = 1
    \* about to store: the step before was this record's parse, and the dict
    \* is the one built from the Booking it returned
    /\ pc = "store" =>
           /\ trace[Len(trace)] = [op |-> "parse", record |-> idx, ok |-> TRUE]
           /\ \A f \in BookingFields : parsed[f] = model_dump(booking)[f]
           /\ parsed["source_bucket"].v = Records(event)[idx]["s3"]["bucket"]["name"]
           /\ parsed["source_key"].v
                  = Join(PercentDecoded(Records(event)[idx]["s3"]["object"]["key"]))
    \* just stored: store_result received that dict
    /\ (trace # <<>> /\ trace[Len(trace)].op = "store") =>
           LET call == storeCalls[Len(storeCalls)]
           IN  /\ call.record = trace[Len(trace)].record
               /\ \A f \in BookingFields \ {"confirmation"} :
                      call.parsed[f] = model_dump(booking)[f]
               /\ call.parsed["source_key"].v
                      = Join(PercentDecoded(
                            Records(event)[call.record]["s3"]["object"]["key"]))
    /\ \A m, n \in 1..Len(getCalls) : m < n => getCalls[m].record < getCalls[n].record
    /\ \A m, n \in 1..Len(storeCalls) : m < n => storeCalls[m].record < storeCalls[n].record

\* Two records fetched, parsed and stored in turn, with different bookings:
\* the second store received the second record's booking.
C15_Witness ==
    /\ Len(trace) = 6
    /\ trace[3].op = "store" /\ trace[3].record = 1
    /\ trace[6].op = "store" /\ trace[6].record = 2
    /\ Len(storeCalls) = 2
    /\ storeCalls[2].parsed["name"] = model_dump(booking)["name"]
    /\ storeCalls[2].parsed["name"] # storeCalls[1].parsed["name"]

\* The compared strings in ascending order, as Python's sorted() puts them
SortedStrings ==
    <<"", "2025-03-20", "2025-04-01", "2025-11-17",
      "2025-11-17T10:00:00", "2025-11-17T10:00:01">>
RankOf(s) == CHOOSE i \in 1..Len(SortedStrings) : SortedStrings[i] = s

\* A bound counts as given when the client sent a non-empty value for it
Given(x) == x.kind = "str" /\ x.v # ""

\* The item lies within the bounds the request gave for its date field
InRange(it, req) ==
    (Given(req.start_date) \/ Given(req.end_date)) =>
        /\ req.date_field \in DOMAIN it
        /\ it[req.date_field].kind = "str"
        /\ Given(req.start_date) =>
               RankOf(req.start_date.v) <= RankOf(it[req.date_field].v)
        /\ Given(req.end_date) =>
               RankOf(it[req.date_field].v) <= RankOf(req.end_date.v)

ScanDone == scan # Unbound /\ scan.pc = "done"

\* C11: get_bookings_by_date_range returns exactly the table items whose
\* date_field value v satisfies start_date <= v when start_date is given and
\* v <= end_date when end_date is given, both inclusive and compared as
\* strings; with neither date given the scan carries no filter and every
\* booking is returned.
C11_ExactlyTheItemsInRange ==
    ScanDone =>
        LET expected == {it \in table : InRange(it, scan)}
            returned == {scan.all_items[i] : i \in 1..Len(scan.all_items)}
        IN  /\ returned = expected
            /\ Len(scan.all_items) = Cardinality(expected)
            /\ scan.http.status = 200
            /\ scan.http.count = Cardinality(expected)
            /\ {scan.http.bookings[i] : i \in 1..Len(scan.http.bookings)}
                   = {BookingResponse(convert_dynamodb_item(it)) : it \in expected}
            /\ (~Given(scan.start_date) /\ ~Given(scan.end_date)) =>
                   /\ returned = table
                   /\ \A n \in 1..Len(scan.calls) :
                          "FilterExpression" \notin DOMAIN scan.calls[n]

\* A request with both bounds answered: an item whose date equals the start
\* bound is returned, another item of the table lies outside and is not.
C11_Witness ==
    /\ ScanDone
    /\ Given(scan.start_date) /\ Given(scan.end_date)
    /\ \E it \in table :
           /\ scan.date_field \in DOMAIN it
           /\ it[scan.date_field].v = scan.start_date.v
           /\ \E i \in 1..Len(scan.all_items) : scan.all_items[i] = it
    /\ \E it \in table :
           \A i \in 1..Len(scan.all_items) : scan.all_items[i] # it

\* The Items of the pages, one page after another
RECURSIVE PageItems(_)
PageItems(pages) ==
    IF pages = <<>> THEN <<>> ELSE Head(pages)["Items"] \o PageItems(Tail(pages))

ScanEnded == scan # Unbound /\ scan.pc \in {"done", "raised"}

\* What holds of a scan at every moment: the first call carries no
\* ExclusiveStartKey and every later call the LastEvaluatedKey of the page
\* before it; a further call is made only after a page with a
\* LastEvaluatedKey; all_items is the Items of the pages so far, in page
\* order; and the scan returns only after a page without LastEvaluatedKey,
\* having made as many calls as there are pages and answering with the Items
\* of all of them, each item once.
C16_PageChain ==
    scan # Unbound =>
        /\ Len(scan.calls) = Len(scan.pages) + (IF scan.pc = "raised" THEN 1 ELSE 0)
        /\ \A n \in 1..Len(scan.pages) :
               /\ n = 1 => "ExclusiveStartKey" \notin DOMAIN scan.calls[n]
               /\ n > 1 =>
                      /\ "LastEvaluatedKey" \in DOMAIN scan.pages[n - 1]
                      /\ "ExclusiveStartKey" \in DOMAIN scan.calls[n]
                      /\ scan.calls[n]["ExclusiveStartKey"]
                             = scan.pages[n - 1]["LastEvaluatedKey"]
        /\ scan.all_items = PageItems(scan.pages)
        /\ scan.pc = "done" =>
               /\ Len(scan.pages) >= 1
               /\ "LastEvaluatedKey" \notin DOMAIN scan.pages[Len(scan.pages)]
               /\ scan.http.status = 200
               /\ Len(scan.http.bookings) = Len(PageItems(scan.pages))
               /\ \A i \in 1..Len(scan.http.bookings) :
                      scan.http.bookings[i]
                          = BookingResponse(convert_dynamodb_item(PageItems(scan.pages)[i]))
               /\ \A i, j \in 1..Len(scan.all_items) :
                      i # j => scan.all_items[i] # scan.all_items[j]
               /\ \A it \in table :
                      FilterHolds(it, scan.scan_kwargs) =>
                          \E i \in 1..Len(scan.all_items) : scan.all_items[i] = it

\* C16: get_bookings_by_date_range follows scan pagination to the end: each
\* further scan carries the previous LastEvaluatedKey as ExclusiveStartKey
\* until a page has none, the result is the Items of every page in page
\* order with nothing dropped or duplicated, k pages take exactly k calls,
\* and the loop terminates.
C16_FollowsPaginationToTheEnd ==
    /\ []C16_PageChain
    /\ (scan # Unbound) ~> ScanEnded

\* A scan of three pages returned: two pages of one item each and a last,
\* empty page, reached with three calls.
C16_Witness ==
    /\ ScanDone
    /\ Len(scan.pages) = 3
    /\ Len(scan.calls) = 3
    /\ Len(scan.pages[1]["Items"]) = 1
    /\ Len(scan.pages[2]["Items"]) = 1
    /\ Len(scan.all_items) = 2

\* The sample values each field type is known to accept
AcceptedValue(f, x) ==
    CASE FieldType(f) = "date" ->
             \/ x.kind = "str" /\ x.v \in {"2025-03-20", "2025-03-28", "2025-01-20"}
             \/ x.kind = "int" /\ x.v \in {0, 86400}
      [] FieldType(f) = "decimal" ->
             \/ x.kind = "str" /\ x.v \in {"15", "0", "785.00"}
             \/ x.kind = "int"
      [] FieldType(f) = "bool" ->
             \/ x.kind = "bool"
             \/ x.kind = "str" /\ x.v = "yes"
      [] FieldType(f) = "url" -> x.kind = "str" /\ x.v = "https://premierinn.com"
      [] OTHER -> x.kind = "str"

\* The arguments of the first tool call hold kind and booking, and booking
\* is null or carries every Booking field with an accepted value
CompleteArguments(resp) ==
    /\ resp # Unbound
    /\ resp.tool_calls.kind = "list"
    /\ Len(resp.tool_calls.v) >= 1
    /\ LET args == resp.tool_calls.v[1].arguments
       IN  /\ args.kind = "dict"
           /\ "kind" \in DOMAIN args.v
           /\ args.v["kind"].kind = "str"
           /\ "booking" \in DOMAIN args.v
           /\ \/ args.v["booking"].kind = "null"
              \/ /\ args.v["booking"].kind = "dict"
                 /\ \A f \in BookingFields :
                        /\ f \in DOMAIN args.v["booking"].v
                        /\ AcceptedValue(f, args.v["booking"].v[f])

LlmEnded == llm # Unbound /\ llm.pc = "ended"

\* C17: llm_extract_email returns an ExtractionResult only when the
\* arguments of the first tool call contain kind and booking, with booking
\* null or carrying all 18 Booking fields with valid values; in every other
\* case it raises, and what it returns is never partial.
C17_CompleteResultOrRaise ==
    LlmEnded =>
        /\ llm.result.kind \in {"returned", "raised"}
        /\ llm.result.kind = "returned" <=> CompleteArguments(llm.response)
        /\ llm.result.kind = "returned" =>
               LET value == llm.result.value
                   given == llm.response.tool_calls.v[1].arguments.v
               IN  /\ value.kind.kind = "str"
                   /\ value.kind.v = given["kind"].v
                   /\ value.booking = None <=> given["booking"] = None
                   /\ value.booking # None =>
                          /\ DOMAIN value.booking = BookingFields
                          /\ Cardinality(DOMAIN value.booking) = 18
                          /\ \A f \in BookingFields :
                                 value.booking[f].kind
                                     = CASE FieldType(f) = "date"    -> "date"
                                         [] FieldType(f) = "decimal" -> "decimal"
                                         [] FieldType(f) = "bool"    -> "bool"
                                         [] FieldType(f) = "url"     -> "url"
                                         [] OTHER                    -> "str"

\* A complete booking returned from the first of two tool calls, the second
\* of which does not even hold JSON.
C17_Witness ==
    /\ LlmEnded
    /\ llm.result.kind = "returned"
    /\ llm.result.value.booking # None
    /\ llm.result.value.booking["check_in_date"] = Date(2025, 3, 20)
    /\ Len(llm.response.tool_calls.v) = 2
    /\ llm.response.tool_calls.v[2].arguments = NotJson

====
